---- MODULE Spec2Model ----
(***************************************************************************)
(* Model of the warden-rs grammar engine (src/src/parser): the literal,    *)
(* identifier and operator recognizers, the Pratt expression parser built  *)
(* from them, and the parse entry point used by test_parser.               *)
(*                                                                         *)
(* Text is a sequence of one-character strings.  A recognizer is an        *)
(* operator (s, i) -> result, where i is the offset (number of characters  *)
(* already consumed) and the result is a record                            *)
(*    [st |-> "ok" | "err" | "panic", pos, val, far]                       *)
(* st = "panic" is the abort of an unwrap() on an Err value.  far is the   *)
(* failure the parser library holds as the error to report when this       *)
(* recognizer has run: a record [rank, at] of the furthest rejection so    *)
(* far (NoAlt when nothing was rejected).  at is the offset of the         *)
(* character rejected, where the span of the error starts; rank is the     *)
(* offset the input stood at when it was rejected, which is past the       *)
(* character, and at the end of input is the end of input itself.          *)
(***************************************************************************)
EXTENDS Integers, Sequences, FiniteSets, TLC

VARIABLES input, parts, parser, out, errors, panicked, stop

vars == <<input, parts, parser, out, errors, panicked, stop>>

(***************************************************************************)
(* Characters                                                              *)
(***************************************************************************)
EOF == "EOF"
NoFail == -1
NoVal == [k |-> "None"]

\* char::is_whitespace, the Unicode White_Space property: U+0009..U+000D,
\* U+0020, U+0085, U+00A0, U+1680, U+2000..U+200A, U+2028, U+2029, U+202F,
\* U+205F, U+3000.  A character is a one-character string; a character
\* outside ASCII is the string of the name of its code point, so that the
\* module is ASCII and reads the same under every charset.  The first line
\* below ends with U+000B.
Whitespace ==
    {" ", "\t", "\n", "\r", "\f", "",
     "U+0085", "U+00A0", "U+1680",
     "U+2000", "U+2001", "U+2002", "U+2003", "U+2004", "U+2005",
     "U+2006", "U+2007", "U+2008", "U+2009", "U+200A",
     "U+2028", "U+2029", "U+202F", "U+205F", "U+3000"}
OctDigits == {"0", "1", "2", "3", "4", "5", "6", "7"}
DecDigits == OctDigits \cup {"8", "9"}
HexLower == <<"0", "1", "2", "3", "4", "5", "6", "7", "8", "9",
              "a", "b", "c", "d", "e", "f">>
HexUpper == <<"0", "1", "2", "3", "4", "5", "6", "7", "8", "9",
              "A", "B", "C", "D", "E", "F">>
HexDigits == {HexLower[k] : k \in 1..16} \cup {HexUpper[k] : k \in 1..16}
Letters == {"a", "b", "c", "d", "e", "f", "g", "h", "i", "j", "k", "l", "m",
            "n", "o", "p", "q", "r", "s", "t", "u", "v", "w", "x", "y", "z",
            "A", "B", "C", "D", "E", "F", "G", "H", "I", "J", "K", "L", "M",
            "N", "O", "P", "Q", "R", "S", "T", "U", "V", "W", "X", "Y", "Z"}
IdentStart == Letters \cup {"_"}
IdentContinue == IdentStart \cup DecDigits

DigitsOfRadix(radix) ==
    IF radix = 8 THEN OctDigits ELSE IF radix = 10 THEN DecDigits ELSE HexDigits

\* char::to_digit(16)
DigitVal(c) == CHOOSE k \in 0..15 : HexLower[k + 1] = c \/ HexUpper[k + 1] = c


At(s, i) == IF i < Len(s) THEN s[i + 1] ELSE EOF

Slice(s, i, j) == SubSeq(s, i + 1, j)

(***************************************************************************)
(* Results and the combinators of the parser library                       *)
(***************************************************************************)
\* No rejection recorded
NoAlt == [rank |-> NoFail, at |-> NoFail]

\* The rejection of what stands at offset p of s: the next character is
\* taken from the input and refused, so the error is ranked at the offset
\* after it; at the end of input there is no character to take.
Rejected(s, p) == [rank |-> IF p < Len(s) THEN p + 1 ELSE p, at |-> p]

\* The rejection kept of two, first recorded before second: the one of the
\* greater rank, and the earlier one when the ranks are equal (the later
\* one then only adds to what was expected).
Further(first, second) == IF second.rank > first.rank THEN second ELSE first

Ok(p, v, f) == [st |-> "ok", pos |-> p, val |-> v, far |-> f]
Err(f) == [st |-> "err", pos |-> 0, val |-> NoVal, far |-> f]
Panic == [st |-> "panic", pos |-> 0, val |-> NoVal, far |-> NoAlt]

\* The result r of a recognizer that ran after the rejection f was recorded
WithFar(r, f) == IF r.st = "panic" THEN r ELSE [r EXCEPT !.far = Further(f, @)]

\* a.or(b), and each step of choice((a, b, ...)): the first alternative that
\* succeeds wins; a failed alternative leaves its furthest failure behind.
Or(a, b) == IF a.st = "err" THEN WithFar(b, a.far) ELSE a

\* The offsets of a text
Offsets(s) == 0..Len(s)

\* The result of b run after a succeeded: the pair of their values
Both(a, b) ==
    IF b.st = "ok" THEN [b EXCEPT !.val = <<a.val, @>>, !.far = Further(a.far, @)]
    ELSE WithFar(b, a.far)

\* a.then(b): B[p] is the result of b started at offset p, where a stopped.
Then(a, B) == IF a.st = "ok" THEN Both(a, B[a.pos]) ELSE a

First(r) == IF r.st = "ok" THEN [r EXCEPT !.val = @[1]] ELSE r
Second(r) == IF r.st = "ok" THEN [r EXCEPT !.val = @[2]] ELSE r

\* a.ignore_then(b)
IgnoreThen(a, B) == Second(Then(a, B))

\* a.then_ignore(b)
ThenIgnore(a, B) == First(Then(a, B))

\* a.or_not() at offset i
OrNot(a, i) == IF a.st = "err" THEN Ok(i, NoVal, a.far) ELSE a

\* a.to(v), a.map(|_| v)
To(a, v) == IF a.st = "ok" THEN [a EXCEPT !.val = v] ELSE a

\* a.to_slice(), a started at offset i: the value is the text a matched.
ToSlice(s, i, a) == IF a.st = "ok" THEN [a EXCEPT !.val = Slice(s, i, a.pos)] ELSE a

RECURSIVE TakeWhile(_, _, _)
TakeWhile(s, i, cls) ==
    IF i < Len(s) /\ s[i + 1] \in cls THEN TakeWhile(s, i + 1, cls) ELSE i

RECURSIVE TakeUntil(_, _, _)
TakeUntil(s, i, c) ==
    IF i < Len(s) /\ s[i + 1] # c THEN TakeUntil(s, i + 1, c) ELSE i

RECURSIVE MatchLen(_, _, _, _)
MatchLen(s, i, t, k) ==
    IF k < Len(t) /\ At(s, i + k) = t[k + 1] THEN MatchLen(s, i, t, k + 1) ELSE k

\* The outcome of just(t) at offset i after k characters of t matched
Matched(s, i, t, k) ==
    IF k = Len(t) THEN Ok(i + k, NoVal, NoAlt) ELSE Err(Rejected(s, i + k))

\* just(t): the text t, character by character; fails at the first mismatch.
just(s, i, t) == Matched(s, i, t, MatchLen(s, i, t, 0))

\* The outcome of a repetition of digits from offset i that ended at offset j
Repeated(s, i, j) == IF j = i THEN Err(Rejected(s, i)) ELSE Ok(j, NoVal, Rejected(s, j))

\* text::digits(radix): one or more digits; the repetition ends on the first
\* character that is no digit, which it rejects.
text_digits(s, i, radix) == Repeated(s, i, TakeWhile(s, i, DigitsOfRadix(radix)))

\* text::int(10): a non-zero digit followed by digits, or a single "0".
text_int(s, i) ==
    IF At(s, i) \in DecDigits \ {"0"} THEN Repeated(s, i, TakeWhile(s, i + 1, DecDigits))
    ELSE IF At(s, i) = "0" THEN Ok(i + 1, NoVal, Rejected(s, i))
    ELSE Err(Rejected(s, i))

\* text::ident(): [A-Za-z_][A-Za-z0-9_]*
text_ident(s, i) ==
    IF At(s, i) \in IdentStart THEN Repeated(s, i, TakeWhile(s, i + 1, IdentContinue))
    ELSE Err(Rejected(s, i))

\* The whitespace skipped by padded(): it rejects nothing.
SkipWs(s, i) == TakeWhile(s, i, Whitespace)

\* a.padded(), for a applied at SkipWs(s, i)
Padded(s, a) == IF a.st = "ok" THEN [a EXCEPT !.pos = SkipWs(s, @)] ELSE a

(***************************************************************************)
(* i64 values.  A value is its decimal numeral: a sequence of the digits   *)
(* 0..9, most significant first, without leading zeros (zero is <<0>>).    *)
(***************************************************************************)
I64_MAX == <<9, 2, 2, 3, 3, 7, 2, 0, 3, 6, 8, 5, 4, 7, 7, 5, 8, 0, 7>>

\* n * r + c on a numeral held least significant digit first
RECURSIVE MulAddLE(_, _, _)
MulAddLE(n, r, c) ==
    IF n = <<>>
    THEN IF c = 0 THEN <<>> ELSE <<c % 10>> \o MulAddLE(<<>>, r, c \div 10)
    ELSE <<(Head(n) * r + c) % 10>> \o MulAddLE(Tail(n), r, (Head(n) * r + c) \div 10)

Reverse(q) == [k \in 1..Len(q) |-> q[Len(q) + 1 - k]]

RECURSIVE NumLess(_, _, _)
\* a < b for numerals of the same length, compared from digit k on
NumLess(a, b, k) ==
    IF k > Len(a) THEN FALSE
    ELSE IF a[k] # b[k] THEN a[k] < b[k]
    ELSE NumLess(a, b, k + 1)

\* n > i64::MAX, n least significant digit first
ExceedsI64(n) ==
    \/ Len(n) > Len(I64_MAX)
    \/ Len(n) = Len(I64_MAX) /\ NumLess(I64_MAX, Reverse(n), 1)

Numeral(n) == IF n = <<>> THEN <<0>> ELSE Reverse(n)

\* i64::from_str_radix(src, radix) and str::parse::<i64>() (radix 10) on a
\* run of digits: result = result.checked_mul(radix)?.checked_add(digit)?
\* acc is the result before digit k, least significant digit first.
RECURSIVE from_str_radix_go(_, _, _, _)
from_str_radix_go(src, radix, k, acc) ==
    IF ExceedsI64(acc) THEN [overflow |-> TRUE, value |-> <<>>]
    ELSE IF k > Len(src) THEN [overflow |-> FALSE, value |-> Numeral(acc)]
    ELSE from_str_radix_go(src, radix, k + 1, MulAddLE(acc, radix, DigitVal(src[k])))

from_str_radix(src, radix) == from_str_radix_go(src, radix, 1, <<>>)

\* .map(Literal::Integer).unwrap() on the decoded value v: an Err aborts
Unwrap(a, v) ==
    IF v.overflow THEN Panic ELSE [a EXCEPT !.val = [k |-> "Integer", v |-> v.value]]

\* a.map(|s| i64::from_str_radix(s, radix).map(Literal::Integer).unwrap()),
\* the value of a being the text it matched
MapInteger(a, radix) == IF a.st = "ok" THEN Unwrap(a, from_str_radix(a.val, radix)) ELSE a

(***************************************************************************)
(* Literal::parser                                                         *)
(***************************************************************************)
exponent(s, i) ==
    Then(Then(Or(just(s, i, <<"e">>), just(s, i, <<"E">>)),
              [p \in Offsets(s) |-> OrNot(Or(just(s, p, <<"+">>), just(s, p, <<"-">>)), p)]),
         [p \in Offsets(s) |-> text_digits(s, p, 10)])

\* a.from_str().unwrapped().map(Literal::Float), the value of a being the
\* text it matched: the float value is kept as that text.
MapFloat(a) == IF a.st = "ok" THEN [a EXCEPT !.val = [k |-> "Float", text |-> @]] ELSE a

float_dot(s, i) ==
    MapFloat(ToSlice(s, i,
        Then(Then(ThenIgnore(text_digits(s, i, 10),
                             [p \in Offsets(s) |-> just(s, p, <<".">>)]),
                  [p \in Offsets(s) |-> OrNot(text_digits(s, p, 10), p)]),
             [p \in Offsets(s) |-> OrNot(exponent(s, p), p)])))

float_exp(s, i) ==
    MapFloat(ToSlice(s, i,
        Then(text_digits(s, i, 10), [p \in Offsets(s) |-> exponent(s, p)])))

float_frac(s, i) ==
    MapFloat(ToSlice(s, i,
        Then(IgnoreThen(just(s, i, <<".">>),
                        [p \in Offsets(s) |-> text_digits(s, p, 10)]),
             [p \in Offsets(s) |-> OrNot(exponent(s, p), p)])))

float(s, i) == Or(float_dot(s, i), Or(float_exp(s, i), float_frac(s, i)))

decimal(s, i) == MapInteger(ToSlice(s, i, text_int(s, i)), 10)

\* The map closure of octal: the text "0" is 0, any other is decoded in base 8
MapOctal(a) ==
    IF a.st = "ok" /\ a.val = <<"0">> THEN [a EXCEPT !.val = [k |-> "Integer", v |-> <<0>>]]
    ELSE MapInteger(a, 8)

\* Mutant of octal: the matched text decoded in base 10
octal_as_decimal(s, i) ==
    MapInteger(ToSlice(s, i, Then(just(s, i, <<"0">>),
                                  [p \in Offsets(s) |-> text_digits(s, p, 8)])), 10)

octal(s, i) ==
    MapOctal(ToSlice(s, i, Then(just(s, i, <<"0">>),
                                [p \in Offsets(s) |-> text_digits(s, p, 8)])))

hex(s, i) ==
    MapInteger(IgnoreThen(Or(just(s, i, <<"0", "x">>), just(s, i, <<"0", "X">>)),
                          [p \in Offsets(s) |-> ToSlice(s, p, text_digits(s, p, 16))]),
               16)

integer(s, i) == Or(hex(s, i), Or(octal(s, i), decimal(s, i)))

boolean(s, i) ==
    Or(To(just(s, i, <<"t", "r", "u", "e">>), [k |-> "Boolean", v |-> TRUE]),
       To(just(s, i, <<"f", "a", "l", "s", "e">>), [k |-> "Boolean", v |-> FALSE]))

\* none_of('"').repeated() from offset p up to offset j, then the closing quote
string_body(s, p, j) ==
    To(WithFar(just(s, j, <<"\"">>), Rejected(s, j)), [k |-> "String", v |-> Slice(s, p, j)])

string(s, i) ==
    IgnoreThen(just(s, i, <<"\"">>),
               [p \in Offsets(s) |-> string_body(s, p, TakeUntil(s, p, "\""))])

undefined(s, i) ==
    To(just(s, i, <<"u", "n", "d", "e", "f", "i", "n", "e", "d">>), [k |-> "Undefined"])

null(s, i) == To(just(s, i, <<"n", "u", "l", "l">>), [k |-> "Null"])

\* Mutant of Literal_parser: the integer forms tried before the float forms
Literal_parser_integer_first(s, i) ==
    Or(integer(s, i), Or(float(s, i), Or(string(s, i),
       Or(boolean(s, i), Or(undefined(s, i), null(s, i))))))

Literal_parser(s, i) ==
    Or(float(s, i), Or(integer(s, i), Or(string(s, i),
       Or(boolean(s, i), Or(undefined(s, i), null(s, i))))))

(***************************************************************************)
(* Identifier::parser, UnaryOperator::parser, BinaryOperator               *)
(***************************************************************************)
\* a.map(|s| Identifier(s.to_string())), the value of a being the text it matched
MapIdentifier(a) ==
    IF a.st = "ok" THEN [a EXCEPT !.val = [k |-> "Identifier", name |-> @]] ELSE a

Identifier_parser(s, i) == MapIdentifier(ToSlice(s, i, text_ident(s, i)))

UnaryOperator_parser(s, i) ==
    Or(To(just(s, i, <<"+">>), "Plus"),
    Or(To(just(s, i, <<"-">>), "Minus"),
    Or(To(just(s, i, <<"!">>), "Not"),
    Or(To(just(s, i, <<"i", "s", " ", "e", "m", "p", "t", "y">>), "IsEmpty"),
    Or(To(just(s, i, <<"i", "s", " ", "n", "o", "t", " ", "e", "m", "p", "t", "y">>), "IsNotEmpty"),
    Or(To(just(s, i, <<"i", "s", " ", "d", "e", "f", "i", "n", "e", "d">>), "IsDefined"),
       To(just(s, i, <<"i", "s", " ", "n", "o", "t", " ", "d", "e", "f", "i", "n", "e", "d">>),
          "IsNotDefined")))))))

multiplicative_choice(s, p) ==
    Or(To(just(s, p, <<"*">>), "Multiply"),
    Or(To(just(s, p, <<"/">>), "Divide"),
       To(just(s, p, <<"%">>), "Modulus")))

multiplicative(s, i) == Padded(s, multiplicative_choice(s, SkipWs(s, i)))

additive_choice(s, p) ==
    Or(To(just(s, p, <<"+">>), "Add"),
       To(just(s, p, <<"-">>), "Subtract"))

additive(s, i) == Padded(s, additive_choice(s, SkipWs(s, i)))

\* Mutant of comparison_choice: each short spelling tried before the longer
\* one that starts with it
comparison_choice_short_first(s, p) ==
    Or(To(just(s, p, <<"=", "=">>), "Equals"),
    Or(To(just(s, p, <<"!", "=">>), "NotEquals"),
    Or(To(just(s, p, <<"<">>), "LessThan"),
    Or(To(just(s, p, <<"<", "=">>), "LessThanOrEqual"),
    Or(To(just(s, p, <<">">>), "GreaterThan"),
    Or(To(just(s, p, <<">", "=">>), "GreaterThanOrEqual"),
    Or(To(just(s, p, <<"i", "s">>), "Is"),
    Or(To(just(s, p, <<"i", "s", " ", "n", "o", "t">>), "IsNot"),
    Or(To(just(s, p, <<"m", "a", "t", "c", "h", "e", "s">>), "Matches"),
    Or(To(just(s, p, <<"n", "o", "t", " ", "m", "a", "t", "c", "h", "e", "s">>), "NotMatches"),
    Or(To(just(s, p, <<"c", "o", "n", "t", "a", "i", "n", "s">>), "Contains"),
       To(just(s, p, <<"i", "n">>), "In"))))))))))))

comparison_choice(s, p) ==
    Or(To(just(s, p, <<"=", "=">>), "Equals"),
    Or(To(just(s, p, <<"!", "=">>), "NotEquals"),
    Or(To(just(s, p, <<"<", "=">>), "LessThanOrEqual"),
    Or(To(just(s, p, <<"<">>), "LessThan"),
    Or(To(just(s, p, <<">", "=">>), "GreaterThanOrEqual"),
    Or(To(just(s, p, <<">">>), "GreaterThan"),
    Or(To(just(s, p, <<"i", "s", " ", "n", "o", "t">>), "IsNot"),
    Or(To(just(s, p, <<"i", "s">>), "Is"),
    Or(To(just(s, p, <<"m", "a", "t", "c", "h", "e", "s">>), "Matches"),
    Or(To(just(s, p, <<"n", "o", "t", " ", "m", "a", "t", "c", "h", "e", "s">>), "NotMatches"),
    Or(To(just(s, p, <<"c", "o", "n", "t", "a", "i", "n", "s">>), "Contains"),
       To(just(s, p, <<"i", "n">>), "In"))))))))))))

comparison(s, i) == Padded(s, comparison_choice(s, SkipWs(s, i)))

and(s, i) == Padded(s, To(just(s, SkipWs(s, i), <<"a", "n", "d">>), "And"))

or_xor_choice(s, p) ==
    Or(To(just(s, p, <<"o", "r">>), "Or"),
       To(just(s, p, <<"x", "o", "r">>), "Xor"))

or_xor(s, i) == Padded(s, or_xor_choice(s, SkipWs(s, i)))

BinaryOperator_parser(s, i) ==
    Or(additive(s, i), Or(multiplicative(s, i), Or(comparison(s, i),
       Or(and(s, i), or_xor(s, i)))))

(***************************************************************************)
(* Expression::parser: primary expressions and the Pratt table             *)
(***************************************************************************)
\* Associativity::Left(n): the binding powers the Pratt loop compares
left_power(n) == n * 2

\* Mutant of right_power: the powers of Associativity::Right(n)
right_power_of_right(n) == n * 2

right_power(n) == n * 2 + 1

\* Mutant of PrattTable: the priorities of the first two tiers exchanged
PrattTable_swapped ==
    << [assoc |-> 4, op |-> "multiplicative"],
       [assoc |-> 5, op |-> "additive"],
       [assoc |-> 3, op |-> "comparison"],
       [assoc |-> 2, op |-> "and"],
       [assoc |-> 1, op |-> "or_xor"] >>

\* The infix table of Expression::parser, in the order it is tried
PrattTable ==
    << [assoc |-> 5, op |-> "multiplicative"],
       [assoc |-> 4, op |-> "additive"],
       [assoc |-> 3, op |-> "comparison"],
       [assoc |-> 2, op |-> "and"],
       [assoc |-> 1, op |-> "or_xor"] >>

infix_op(name, s, i) ==
    CASE name = "multiplicative" -> multiplicative(s, i)
      [] name = "additive" -> additive(s, i)
      [] name = "comparison" -> comparison(s, i)
      [] name = "and" -> and(s, i)
      [] name = "or_xor" -> or_xor(s, i)

binary_expr(lhs, op, rhs) ==
    [k |-> "BinaryExpr", left |-> lhs, op |-> op, right |-> rhs]

unary_expr(op, expr) == [k |-> "UnaryExpr", op |-> op, expr |-> expr]

call(func, args) == [k |-> "Call", func |-> func, args |-> args]

\* a.map(Expression::Literal)
MapLiteral(a) == IF a.st = "ok" THEN [a EXCEPT !.val = [k |-> "Literal", lit |-> @]] ELSE a

\* a.map(|(op, expr)| Expression::UnaryExpr {op, expr})
MapUnary(a) == IF a.st = "ok" THEN [a EXCEPT !.val = unary_expr(@[1], @[2])] ELSE a

\* a.map(|(func, args)| Expression::Call {func, args})
MapCall(a) == IF a.st = "ok" THEN [a EXCEPT !.val = call(@[1], @[2])] ELSE a

RECURSIVE pratt_go(_, _, _)
RECURSIVE pratt_loop(_, _, _, _)
RECURSIVE pratt_infix(_, _, _, _, _)
RECURSIVE primary(_, _)
RECURSIVE function(_, _)
RECURSIVE delimited_by(_, _)
RECURSIVE separated_by(_, _, _, _, _)
RECURSIVE separator(_, _, _, _, _)
RECURSIVE unary(_, _)

\* Mutant of separated_by: each further item is put before the earlier ones
separated_by_prepend(s, p, items, far, item) ==
    IF item.st = "panic" THEN Panic
    ELSE IF item.st = "err" THEN Ok(p, items, Further(far, item.far))
    ELSE separator(s, item.pos, <<item.val>> \o items, Further(far, item.far),
                   Padded(s, just(s, SkipWs(s, item.pos), <<",">>)))

\* args.separated_by(just(',').padded()).collect() after an item parser
\* ran: items are the arguments collected up to offset p, item is the
\* result of the parser of the next one.  An item that fails ends the list
\* at p: a separator that no item follows is given back.
separated_by(s, p, items, far, item) ==
    IF item.st = "panic" THEN Panic
    ELSE IF item.st = "err" THEN Ok(p, items, Further(far, item.far))
    ELSE separator(s, item.pos, Append(items, item.val), Further(far, item.far),
                   Padded(s, just(s, SkipWs(s, item.pos), <<",">>)))

\* separated_by after the separator parser ran at offset p with result sep
separator(s, p, items, far, sep) ==
    IF sep.st = "err" THEN Ok(p, items, Further(far, sep.far))
    ELSE separated_by(s, p, items, Further(far, sep.far), pratt_go(s, sep.pos, 0))

\* args.separated_by(..).collect().delimited_by(just('(').padded(),
\* just(')').padded()) at offset p
delimited_by(s, p) ==
    IgnoreThen(Padded(s, just(s, SkipWs(s, p), <<"(">>)),
               [q \in Offsets(s) |->
                   ThenIgnore(separated_by(s, q, <<>>, NoAlt, pratt_go(s, q, 0)),
                              [e \in Offsets(s) |->
                                  Padded(s, just(s, SkipWs(s, e), <<")">>))])])

function(s, i) ==
    MapCall(Then(Identifier_parser(s, i), [p \in Offsets(s) |-> delimited_by(s, p)]))

\* Mutant of unary: the operand is the primary expression that follows
unary_of_primary(s, i) ==
    MapUnary(Then(UnaryOperator_parser(s, i), [p \in Offsets(s) |-> primary(s, p)]))

unary(s, i) ==
    MapUnary(Then(UnaryOperator_parser(s, i), [p \in Offsets(s) |-> pratt_go(s, p, 0)]))

literal(s, i) == MapLiteral(Literal_parser(s, i))

identifier(s, i) == Identifier_parser(s, i)

primary(s, i) ==
    Or(function(s, i), Or(literal(s, i), Or(identifier(s, i), unary(s, i))))

\* The loop of the Pratt parser after an operand: acc is the result so far
\* (the tree, the offset it ends at, the furthest failure).  The infix
\* operators are tried in table order from entry n on; one whose left power
\* is below min_power is skipped.
pratt_loop(s, acc, min_power, n) ==
    IF acc.st # "ok" \/ n > Len(PrattTable) THEN acc
    ELSE IF left_power(PrattTable[n].assoc) < min_power
    THEN pratt_loop(s, acc, min_power, n + 1)
    ELSE pratt_infix(s, acc, min_power, n,
                     Then(infix_op(PrattTable[n].op, s, acc.pos),
                          [p \in Offsets(s) |->
                              pratt_go(s, p, right_power(PrattTable[n].assoc))]))

\* r is the result of entry n's operator followed by its right operand: when
\* both parsed they are folded and the loop starts over; otherwise the input
\* is rewound to where acc ends and the next entry is tried.
pratt_infix(s, acc, min_power, n, r) ==
    IF r.st = "panic" THEN Panic
    ELSE IF r.st = "err"
    THEN pratt_loop(s, [acc EXCEPT !.far = Further(@, r.far)], min_power, n + 1)
    ELSE pratt_loop(s, Ok(r.pos, binary_expr(acc.val, r.val[1], r.val[2]),
                          Further(acc.far, r.far)),
                    min_power, 1)

pratt_go(s, i, min_power) == pratt_loop(s, primary(s, i), min_power, 1)

Expression_parser(s, i) == pratt_go(s, i, 0)

(***************************************************************************)
(* Parser::parse(input).into_output_errors()                               *)
(***************************************************************************)
Parsers == {"Expression", "Literal", "BinaryOperator", "UnaryOperator"}

RunParser(K, s) ==
    CASE K = "Expression" -> Expression_parser(s, 0)
      [] K = "Literal" -> Literal_parser(s, 0)
      [] K = "BinaryOperator" -> BinaryOperator_parser(s, 0)
      [] K = "UnaryOperator" -> UnaryOperator_parser(s, 0)

\* One diagnostic: the offset it is anchored at, the character found there,
\* and whether the reason names "end of input" among what was expected.
Diagnostic(s, at, end) == [at |-> at, found |-> At(s, at), expected_end |-> end]

\* The result r of the parser followed by end(): the output is kept only
\* when the whole input was consumed.  Otherwise end() rejects the character
\* at r.pos, and the one error is the furthest rejection recorded; "end of
\* input" is among what it expected when the rejection by end() is ranked
\* no lower than the one held.  stop is the offset at which the parser
\* itself stopped after a success (NoFail when it failed or aborted).
then_end(s, r) ==
    IF r.st = "panic"
    THEN [panicked |-> TRUE, out |-> NoVal, errors |-> <<>>, stop |-> NoFail]
    ELSE IF r.st = "ok" /\ r.pos = Len(s)
    THEN [panicked |-> FALSE, out |-> [k |-> "Some", v |-> r.val], errors |-> <<>>,
          stop |-> r.pos]
    ELSE IF r.st = "ok"
    THEN [panicked |-> FALSE, out |-> NoVal,
          errors |-> <<Diagnostic(s, Further(r.far, Rejected(s, r.pos)).at,
                                  Rejected(s, r.pos).rank >= r.far.rank)>>,
          stop |-> r.pos]
    ELSE [panicked |-> FALSE, out |-> NoVal,
          errors |-> <<Diagnostic(s, r.far.at, FALSE)>>, stop |-> NoFail]

parse(K, s) == then_end(s, RunParser(K, s))

(***************************************************************************)
(* The state machine: a test types an input, piece by piece, and then      *)
(* hands it to test_parser::<K>.  parts records the pieces typed.          *)
(***************************************************************************)
Init ==
    /\ input = <<>>
    /\ parts = <<>>
    /\ parser = "none"
    /\ out = NoVal
    /\ errors = <<>>
    /\ panicked = FALSE
    /\ stop = NoFail

Type(chunk) ==
    /\ parser = "none"
    /\ parts' = Append(parts, chunk)
    /\ input' = input \o chunk.text
    /\ UNCHANGED <<parser, out, errors, panicked, stop>>

\* .into_output_errors(): the output and the errors of the parse result
into_output_errors(res) ==
    /\ out' = res.out
    /\ errors' = res.errors
    /\ panicked' = res.panicked
    /\ stop' = res.stop

\* test_parser::<K, _>(input, expected) up to the comparison with expected
test_parser(K) ==
    /\ parser = "none"
    /\ parser' = K
    /\ into_output_errors(parse(K, input))
    /\ UNCHANGED <<input, parts>>

Operand(text, tree) == [role |-> "operand", text |-> text, tag |-> "", tree |-> tree]
Piece(role, text, tag) == [role |-> role, text |-> text, tag |-> tag, tree |-> NoVal]

IdentifierExpr(name) == [k |-> "Identifier", name |-> name]
IntegerExpr(v) == [k |-> "Literal", lit |-> [k |-> "Integer", v |-> v]]
BooleanExpr(b) == [k |-> "Literal", lit |-> [k |-> "Boolean", v |-> b]]

(***************************************************************************)
(* Chains of operands joined by binary operators: a op1 b op2 c ...        *)
(***************************************************************************)
MaxOperands == 3

\* The 20 spellings of BinaryOperator with the precedence tier of each:
\* multiplicative 5, additive 4, comparison 3, and 2, or/xor 1.
Spellings ==
    << [op |-> "Multiply", text |-> <<"*">>, tier |-> 5, word |-> FALSE],
       [op |-> "Divide", text |-> <<"/">>, tier |-> 5, word |-> FALSE],
       [op |-> "Modulus", text |-> <<"%">>, tier |-> 5, word |-> FALSE],
       [op |-> "Add", text |-> <<"+">>, tier |-> 4, word |-> FALSE],
       [op |-> "Subtract", text |-> <<"-">>, tier |-> 4, word |-> FALSE],
       [op |-> "Equals", text |-> <<"=", "=">>, tier |-> 3, word |-> FALSE],
       [op |-> "NotEquals", text |-> <<"!", "=">>, tier |-> 3, word |-> FALSE],
       [op |-> "LessThan", text |-> <<"<">>, tier |-> 3, word |-> FALSE],
       [op |-> "GreaterThan", text |-> <<">">>, tier |-> 3, word |-> FALSE],
       [op |-> "LessThanOrEqual", text |-> <<"<", "=">>, tier |-> 3, word |-> FALSE],
       [op |-> "GreaterThanOrEqual", text |-> <<">", "=">>, tier |-> 3, word |-> FALSE],
       [op |-> "And", text |-> <<"a", "n", "d">>, tier |-> 2, word |-> TRUE],
       [op |-> "Or", text |-> <<"o", "r">>, tier |-> 1, word |-> TRUE],
       [op |-> "Xor", text |-> <<"x", "o", "r">>, tier |-> 1, word |-> TRUE],
       [op |-> "Contains", text |-> <<"c", "o", "n", "t", "a", "i", "n", "s">>,
        tier |-> 3, word |-> TRUE],
       [op |-> "In", text |-> <<"i", "n">>, tier |-> 3, word |-> TRUE],
       [op |-> "NotMatches",
        text |-> <<"n", "o", "t", " ", "m", "a", "t", "c", "h", "e", "s">>,
        tier |-> 3, word |-> TRUE],
       [op |-> "Matches", text |-> <<"m", "a", "t", "c", "h", "e", "s">>,
        tier |-> 3, word |-> TRUE],
       [op |-> "IsNot", text |-> <<"i", "s", " ", "n", "o", "t">>, tier |-> 3, word |-> TRUE],
       [op |-> "Is", text |-> <<"i", "s">>, tier |-> 3, word |-> TRUE] >>

TierOf(op) == Spellings[CHOOSE n \in 1..Len(Spellings) : Spellings[n].op = op].tier

\* An operator as it is written between two operands: a symbol as it is, a
\* word between two spaces.
Infixed(sp) ==
    Piece("operator", IF sp.word THEN <<" ">> \o sp.text \o <<" ">> ELSE sp.text, sp.op)

\* The operands a test writes, by the first one: the other places of a chain
\* take the operands of the same row.
ChainRows ==
    << << Operand(<<"a">>, IdentifierExpr(<<"a">>)),
          Operand(<<"b">>, IdentifierExpr(<<"b">>)),
          Operand(<<"c">>, IdentifierExpr(<<"c">>)),
          Operand(<<"d", "_", "1">>, IdentifierExpr(<<"d", "_", "1">>)) >>,
       << Operand(<<"5">>, IntegerExpr(<<5>>)),
          Operand(<<"3">>, IntegerExpr(<<3>>)),
          Operand(<<"2">>, IntegerExpr(<<2>>)),
          Operand(<<"0", "7">>, IntegerExpr(<<7>>)) >>,
       << Operand(<<"1", "0">>, IntegerExpr(<<1, 0>>)),
          Operand(<<"3">>, IntegerExpr(<<3>>)),
          Operand(<<"2">>, IntegerExpr(<<2>>)),
          Operand(<<"t", "r", "u", "e">>, BooleanExpr(TRUE)) >>,
       << Operand(<<"f", "(", "x", ")">>, call(IdentifierExpr(<<"f">>), <<IdentifierExpr(<<"x">>)>>)),
          Operand(<<"f", "a", "l", "s", "e">>, BooleanExpr(FALSE)),
          Operand(<<"0", "x", "1", "F">>, IntegerExpr(<<3, 1>>)),
          Operand(<<"_", "y">>, IdentifierExpr(<<"_", "y">>)) >> >>

ChainOperands(n) ==
    IF n = 1 THEN {ChainRows[r][1] : r \in 1..Len(ChainRows)}
    ELSE {ChainRows[r][IF n <= 4 THEN n ELSE 1] :
             r \in {q \in 1..Len(ChainRows) : ChainRows[q][1] = parts[1]}}

TypeOperand ==
    /\ Len(parts) % 2 = 0
    /\ Len(parts) < 2 * MaxOperands
    /\ \E c \in ChainOperands(Len(parts) \div 2 + 1) : Type(c)

TypeOperator ==
    /\ Len(parts) % 2 = 1
    /\ Len(parts) < 2 * MaxOperands - 1
    /\ \E n \in 1..Len(Spellings) : Type(Infixed(Spellings[n]))

ParseChain ==
    /\ Len(parts) % 2 = 1
    /\ test_parser("Expression")

NextChain == TypeOperand \/ TypeOperator \/ ParseChain

SpecChain == Init /\ [][NextChain]_vars

Some(v) == [k |-> "Some", v |-> v]

\* The outcome of a successful parse whose output is v
Parsed(K, v) == parser = K /\ ~panicked /\ errors = <<>> /\ out = Some(v)

\* What the precedence table prescribes for a op1 b op2 c
PrecedenceTree(a, op1, b, op2, c) ==
    IF TierOf(op2) > TierOf(op1)
    THEN binary_expr(a, op1, binary_expr(b, op2, c))
    ELSE binary_expr(binary_expr(a, op1, b), op2, c)

\* C1 (precedence): once a chain a op1 b op2 c has been parsed as an
\* Expression, the output is BinaryExpr{a, op1, BinaryExpr{b, op2, c}} when
\* the tier priority of op2 is greater than that of op1 and
\* BinaryExpr{BinaryExpr{a, op1, b}, op2, c} otherwise, for the priorities
\* multiplicative 5, additive 4, comparison 3, and 2, or/xor 1; and 5+3*2 is
\* Add(5, Multiply(3, 2)).
C1_Precedence ==
    /\ (parser = "Expression" /\ Len(parts) = 5) =>
           Parsed("Expression",
                  PrecedenceTree(parts[1].tree, parts[2].tag, parts[3].tree,
                                 parts[4].tag, parts[5].tree))
    /\ (parser = "Expression" /\ input = <<"5", "+", "3", "*", "2">>) =>
           Parsed("Expression",
                  binary_expr(IntegerExpr(<<5>>), "Add",
                              binary_expr(IntegerExpr(<<3>>), "Multiply", IntegerExpr(<<2>>))))

C1_Witness ==
    /\ parser = "Expression"
    /\ input = <<"5", "+", "3", "*", "2">>
    /\ out.k = "Some"
    /\ out.v.op = "Add"
    /\ out.v.right.k = "BinaryExpr"

RECURSIVE LeftNest(_, _)
\* The left-nested tree of the first n pieces of a chain (n odd)
LeftNest(ps, n) ==
    IF n = 1 THEN ps[1].tree
    ELSE binary_expr(LeftNest(ps, n - 2), ps[n - 1].tag, ps[n].tree)

SameTier(ps) ==
    \A i, j \in {n \in 1..Len(ps) : n % 2 = 0} : TierOf(ps[i].tag) = TierOf(ps[j].tag)

\* C2 (left-associativity): once a chain of operands joined by operators of
\* one precedence tier (the same operator or mixed ones) has been parsed as
\* an Expression, the output nests to the left: a op1 b op2 c is
\* BinaryExpr{BinaryExpr{a, op1, b}, op2, c}; and 10-3-2 is
\* Subtract(Subtract(10, 3), 2).
C2_LeftAssociative ==
    /\ (parser = "Expression" /\ Len(parts) >= 3 /\ SameTier(parts)) =>
           Parsed("Expression", LeftNest(parts, Len(parts)))
    /\ (parser = "Expression" /\ input = <<"1", "0", "-", "3", "-", "2">>) =>
           Parsed("Expression",
                  binary_expr(binary_expr(IntegerExpr(<<1, 0>>), "Subtract", IntegerExpr(<<3>>)),
                              "Subtract", IntegerExpr(<<2>>)))

C2_Witness ==
    /\ parser = "Expression"
    /\ Len(parts) = 5
    /\ parts[2].tag = "Or"
    /\ parts[4].tag = "Xor"
    /\ out.k = "Some"
    /\ out.v.op = "Xor"
    /\ out.v.left.k = "BinaryExpr"
    /\ out.v.left.op = "Or"

(***************************************************************************)
(* Numeric literals: digits, base prefixes and a trailing character,       *)
(* handed to Literal::parser and to Expression::parser.                    *)
(***************************************************************************)
MaxChunks == 3

Text(chars) == Piece("text", chars, "")

\* 922337203685477580: i64::MAX without its last digit
DecNearMax ==
    <<"9", "2", "2", "3", "3", "7", "2", "0", "3", "6", "8", "5", "4", "7", "7", "5", "8", "0">>
\* 0777777777777777777777: i64::MAX in octal
OctMax == <<"0">> \o [n \in 1..21 |-> "7"]
\* 0x7ffffffffffffff: i64::MAX in hexadecimal without its last digit
HexNearMax == <<"0", "x", "7">> \o [n \in 1..14 |-> "f"]

SmallChunks ==
    {Text(<<"0">>), Text(<<"1">>), Text(<<"7">>), Text(<<"8">>), Text(<<"9">>),
     Text(<<"f">>), Text(<<"X">>), Text(<<"0", "x">>), Text(<<"0", "X">>),
     Text(<<"7", "6">>), Text(<<"1", "A", "3", "F">>)}

LongChunks == {Text(DecNearMax), Text(OctMax), Text(HexNearMax)}

TypeDigits ==
    /\ Len(parts) < MaxChunks
    /\ \E c \in SmallChunks \cup (IF parts = <<>> THEN LongChunks ELSE {}) : Type(c)

ParseLiteral == test_parser("Literal")

ParseLiteralExpression == test_parser("Expression")

NextLiteral == TypeDigits \/ ParseLiteral \/ ParseLiteralExpression

SpecLiteral == Init /\ [][NextLiteral]_vars

AllIn(s, cls) == \A n \in 1..Len(s) : s[n] \in cls

\* The three shapes of an integer literal and the digits each is decoded from
IsDecimalLit(s) ==
    /\ s # <<>>
    /\ AllIn(s, DecDigits)
    /\ (s[1] = "0" => Len(s) = 1)
IsOctalLit(s) == Len(s) >= 2 /\ s[1] = "0" /\ AllIn(s, OctDigits)
IsHexLit(s) ==
    /\ Len(s) >= 3
    /\ s[1] = "0"
    /\ s[2] \in {"x", "X"}
    /\ AllIn(Tail(Tail(s)), HexDigits)
IsIntegerLit(s) == IsDecimalLit(s) \/ IsOctalLit(s) \/ IsHexLit(s)
BaseOf(s) == IF IsHexLit(s) THEN 16 ELSE IF IsOctalLit(s) THEN 8 ELSE 10
DigitsOf(s) == IF IsHexLit(s) THEN Tail(Tail(s)) ELSE s

\* The value of a short run of digits in a base, as a number
RECURSIVE RefValue(_, _, _)
RefValue(ds, base, n) ==
    IF n = 0 THEN 0 ELSE RefValue(ds, base, n - 1) * base + DigitVal(ds[n])

\* The decimal numeral of a number
RECURSIVE DecimalOf(_)
DecimalOf(v) == IF v < 10 THEN <<v>> ELSE DecimalOf(v \div 10) \o <<v % 10>>

\* The literals whose value is computed as a number here: up to 7 digits
ShortLit(s) == IsIntegerLit(s) /\ Len(DigitsOf(s)) <= 7

IntegerLit(v) == [k |-> "Integer", v |-> v]

\* C10 (integer value by base): once an integer literal whose value fits
\* i64 has been parsed as a Literal, the output is Integer(v) with v the
\* base-10 value of a decimal literal, the base-8 value of 0 followed by
\* octal digits, the base-16 value of the digits after 0x or 0X; 076 gives
\* 62, 0x1A3F and 0X1A3F give 6719, and i64::MAX is reached in each base.
C10_IntegerValueByBase ==
    parser = "Literal" =>
        /\ ShortLit(input) =>
               Parsed("Literal",
                      IntegerLit(DecimalOf(RefValue(DigitsOf(input), BaseOf(input),
                                                    Len(DigitsOf(input))))))
        /\ input = <<"0", "7", "6">> => Parsed("Literal", IntegerLit(<<6, 2>>))
        /\ input \in {<<"0", "x", "1", "A", "3", "F">>, <<"0", "X", "1", "A", "3", "F">>} =>
               Parsed("Literal", IntegerLit(<<6, 7, 1, 9>>))
        /\ input \in {DecNearMax \o <<"7">>, OctMax, HexNearMax \o <<"f">>} =>
               Parsed("Literal", IntegerLit(I64_MAX))

C10_Witness ==
    /\ parser = "Literal"
    /\ input = <<"0", "7", "6">>
    /\ out = Some(IntegerLit(<<6, 2>>))

Overflows(s) == IsIntegerLit(s) /\ from_str_radix(DigitsOf(s), BaseOf(s)).overflow

\* C3 (numeric overflow is a diagnostic): once an integer literal whose
\* decoded value exceeds the i64 range has been handed to the Literal or
\* the Expression parser, the parse has ended as a failed parse with at
\* least one diagnostic and no value: it has not aborted.
C3_OverflowIsDiagnostic ==
    (parser \in {"Literal", "Expression"} /\ Overflows(input)) =>
        /\ ~panicked
        /\ out = NoVal
        /\ Len(errors) >= 1

\* 0 followed by decimal digits of which at least one is 8 or 9
LeadingZeroNotOctal(s) ==
    /\ Len(s) >= 2
    /\ s[1] = "0"
    /\ AllIn(s, DecDigits)
    /\ \E n \in 2..Len(s) : s[n] \in {"8", "9"}

\* C5 (leading-zero rule): once 0 followed by decimal digits, one of them 8
\* or 9, has been parsed as a Literal, the parse has failed with at least
\* one diagnostic and no Literal value.
C5_LeadingZeroFails ==
    (parser = "Literal" /\ LeadingZeroNotOctal(input)) =>
        /\ ~panicked
        /\ out = NoVal
        /\ Len(errors) >= 1

\* A parse that recognized a value and left at least one character
Trailing == parser # "none" /\ stop # NoFail /\ stop < Len(input)

\* C4 (trailing input): when the parser recognized a complete value as a
\* proper prefix of the input, the parse has failed with no tree and the
\* diagnostic is anchored at the offset of the first unconsumed character;
\* 0x9X has failed with the diagnostic at X: found X, expected end of input.
C4_AnchoredAtFirstUnconsumed ==
    /\ Trailing => (out = NoVal /\ Len(errors) >= 1 /\ errors[1].at = stop)
    /\ (parser # "none" /\ input = <<"0", "x", "9", "X">>) =>
           /\ out = NoVal
           /\ errors = <<[at |-> 3, found |-> "X", expected_end |-> TRUE]>>

\* C9 (result exclusivity): a parse call has ended either with an output
\* covering the whole input and no diagnostic, or with no output and at
\* least one diagnostic; the empty input ends the second way.
C9_ResultExclusive ==
    parser # "none" =>
        /\ ~panicked
        /\ \/ out.k = "Some" /\ errors = <<>> /\ stop = Len(input)
           \/ out = NoVal /\ Len(errors) >= 1
        /\ input = <<>> => out = NoVal

(***************************************************************************)
(* One operator spelling, with whitespace around it, handed to             *)
(* BinaryOperator::parser.                                                 *)
(***************************************************************************)
MaxPad == 1

Pads == {Piece("pad", <<" ">>, ""), Piece("pad", <<"\t">>, ""), Piece("pad", <<"\f">>, "")}

Typed(role) == {n \in 1..Len(parts) : parts[n].role = role}

TypePad ==
    /\ IF Typed("operator") = {} THEN Len(parts) < MaxPad
       ELSE Cardinality({n \in Typed("pad") : \E m \in Typed("operator") : m < n}) < MaxPad
    /\ \E c \in Pads : Type(c)

TypeSpelling ==
    /\ Typed("operator") = {}
    /\ \E n \in 1..Len(Spellings) : Type(Piece("operator", Spellings[n].text, Spellings[n].op))

ParseOperator == test_parser("BinaryOperator")

NextOperator == TypePad \/ TypeSpelling \/ ParseOperator

SpecOperator == Init /\ [][NextOperator]_vars

\* C7 (operator recognition is exact and greedy): once one of the 20
\* operator spellings, given as the whole input, has been parsed as a
\* BinaryOperator, the whole input is consumed and the output is exactly
\* the operator of that spelling: <= and >= are not < and >, is not is not
\* is, not matches is recognized.
C7_ExactOperator ==
    (parser = "BinaryOperator" /\ Len(parts) = 1 /\ parts[1].role = "operator") =>
        /\ Parsed("BinaryOperator", parts[1].tag)
        /\ stop = Len(input)

C7_Witness ==
    /\ parser = "BinaryOperator"
    /\ input = <<"i", "s", " ", "n", "o", "t">>
    /\ out = Some("IsNot")
    /\ stop = 6

(***************************************************************************)
(* A word operator followed at once by identifier characters:              *)
(* a andb, x orange, x is nothing                                          *)
(***************************************************************************)
WordOperands ==
    {Operand(<<"a">>, IdentifierExpr(<<"a">>)),
     Operand(<<"x">>, IdentifierExpr(<<"x">>)),
     Operand(<<"5">>, IntegerExpr(<<5>>)),
     Operand(<<"t", "r", "u", "e">>, BooleanExpr(TRUE))}

WordSpellings == {n \in 1..Len(Spellings) : Spellings[n].word}

\* What follows the word: identifier characters, or a space and an operand
WordTails ==
    {Piece("tail", <<"b">>, ""), Piece("tail", <<"a", "n", "g", "e">>, ""),
     Piece("tail", <<"h", "i", "n", "g">>, ""), Piece("tail", <<"_", "1">>, ""),
     Piece("tail", <<"9">>, ""), Piece("tail", <<" ", "b">>, "")}

TypeWordOperand ==
    /\ parts = <<>>
    /\ \E c \in WordOperands : Type(c)

TypeWord ==
    /\ Len(parts) = 1
    /\ \E n \in WordSpellings :
          Type(Piece("operator", <<" ">> \o Spellings[n].text, Spellings[n].op))

TypeTail ==
    /\ Len(parts) = 2
    /\ \E c \in WordTails : Type(c)

ParseWord ==
    /\ parts # <<>>
    /\ test_parser("Expression")

NextWord == TypeWordOperand \/ TypeWord \/ TypeTail \/ ParseWord

SpecWord == Init /\ [][NextWord]_vars

\* C6 (word boundary): once an operand, a word operator w and, directly
\* after w, a further identifier character have been parsed as an
\* Expression, the output is no BinaryExpr whose operator is w: a andb is
\* no And, x orange no Or, x is nothing no IsNot.
C6_WordBoundary ==
    (/\ parser = "Expression"
     /\ Len(parts) = 3
     /\ parts[3].text[1] \in IdentContinue
     /\ out.k = "Some"
     /\ out.v.k = "BinaryExpr") => out.v.op # parts[2].tag

(***************************************************************************)
(* Function calls: f(e1, ..., en) with whitespace around the parentheses   *)
(* and the commas                                                          *)
(***************************************************************************)
MaxArgs == 2

Callees == {Piece("callee", <<"f">>, ""), Piece("callee", <<"f", "o", "o", "b", "a", "r">>, "")}
Opens == {Piece("open", <<"(">>, ""), Piece("open", <<" ", "(", " ">>, "")}
Closes == {Piece("close", <<")">>, ""), Piece("close", <<" ", ")", " ">>, "")}
Commas == {Piece("comma", <<",">>, ""), Piece("comma", <<",", " ">>, ""),
           Piece("comma", <<" ", ",", "\t">>, "")}

UnaryExprOf(op, e) == [k |-> "UnaryExpr", op |-> op, expr |-> e]
BinaryExprOf(l, op, r) == [k |-> "BinaryExpr", left |-> l, op |-> op, right |-> r]
CallOf(f, args) == [k |-> "Call", func |-> f, args |-> args]

\* Argument expressions and the tree of each
Arguments ==
    {Operand(<<"a">>, IdentifierExpr(<<"a">>)),
     Operand(<<"b">>, IdentifierExpr(<<"b">>)),
     Operand(<<"4", "2">>, IntegerExpr(<<4, 2>>)),
     Operand(<<"a", "+", "1">>, BinaryExprOf(IdentifierExpr(<<"a">>), "Add", IntegerExpr(<<1>>))),
     Operand(<<"g", "(", "b", ",", "c", ")">>,
             CallOf(IdentifierExpr(<<"g">>), <<IdentifierExpr(<<"b">>), IdentifierExpr(<<"c">>)>>)),
     Operand(<<"-", "x", " ", "o", "r", " ", "y">>,
             UnaryExprOf("Minus", BinaryExprOf(IdentifierExpr(<<"x">>), "Or",
                                               IdentifierExpr(<<"y">>))))}

LastRole == IF parts = <<>> THEN "" ELSE parts[Len(parts)].role

TypeCallee ==
    /\ parts = <<>>
    /\ \E c \in Callees : Type(c)

TypeOpen ==
    /\ LastRole = "callee"
    /\ \E c \in Opens : Type(c)

TypeArgument ==
    /\ LastRole \in {"open", "comma"}
    /\ Cardinality(Typed("operand")) < MaxArgs
    /\ \E c \in Arguments : Type(c)

TypeComma ==
    /\ LastRole = "operand"
    /\ Cardinality(Typed("operand")) < MaxArgs
    /\ \E c \in Commas : Type(c)

TypeClose ==
    /\ LastRole \in {"open", "operand"}
    /\ \E c \in Closes : Type(c)

ParseCall ==
    /\ parts # <<>>
    /\ test_parser("Expression")

NextCall == TypeCallee \/ TypeOpen \/ TypeArgument \/ TypeComma \/ TypeClose \/ ParseCall

SpecCall == Init /\ [][NextCall]_vars

RECURSIVE ArgTrees(_, _)
\* The trees of the arguments among the first n pieces, in source order
ArgTrees(ps, n) ==
    IF n = 0 THEN <<>>
    ELSE IF ps[n].role = "operand" THEN Append(ArgTrees(ps, n - 1), ps[n].tree)
    ELSE ArgTrees(ps, n - 1)

\* C8 (function calls): once f(e1, ..., en), n >= 0, with optional
\* whitespace around the parentheses and commas, has been parsed as an
\* Expression, the output is Call{func: f, args: [e1's tree, ..., en's
\* tree]} in source order; f() is Call{f, []} and f(a,b) is
\* Call{f, [Identifier(a), Identifier(b)]}.
C8_FunctionCall ==
    /\ (parser = "Expression" /\ LastRole = "close") =>
           Parsed("Expression",
                  CallOf(IdentifierExpr(parts[1].text), ArgTrees(parts, Len(parts))))
    /\ (parser = "Expression" /\ input = <<"f", "(", ")">>) =>
           Parsed("Expression", CallOf(IdentifierExpr(<<"f">>), <<>>))
    /\ (parser = "Expression" /\ input = <<"f", "(", "a", ",", "b", ")">>) =>
           Parsed("Expression",
                  CallOf(IdentifierExpr(<<"f">>),
                         <<IdentifierExpr(<<"a">>), IdentifierExpr(<<"b">>)>>))

C8_Witness ==
    /\ parser = "Expression"
    /\ input = <<"f", "(", "a", ",", "b", ")">>
    /\ out.k = "Some"
    /\ out.v.k = "Call"
    /\ Len(out.v.args) = 2

(***************************************************************************)
(* Float literals: an integer part, a point, a fraction and an exponent,   *)
(* each of them present or not, handed to Literal::parser.                 *)
(***************************************************************************)
MaxFloatDigits == 3

\* The pieces of a float text, by the place each takes
FloatPieces ==
    {Piece("int", <<"1">>, ""), Piece("int", <<"6">>, ""), Piece("int", <<"0", "7", "2">>, ""),
     Piece("dot", <<".">>, ""),
     Piece("frac", <<"5">>, ""), Piece("frac", <<"2", "5">>, ""),
     Piece("frac", <<"4", "0">>, ""), Piece("frac", <<"1", "2", "3", "4", "5">>, ""),
     Piece("frac", <<"6", "7", "4", "2", "8">>, ""),
     Piece("e", <<"e">>, ""), Piece("e", <<"E">>, ""),
     Piece("sign", <<"+">>, ""), Piece("sign", <<"-">>, ""),
     Piece("exp", <<"0">>, ""), Piece("exp", <<"5">>, ""), Piece("exp", <<"6">>, ""),
     Piece("exp", <<"1", "1">>, "")}

DigitRoles == {"int", "frac", "exp"}

Place(role) ==
    CASE role = "" -> 0
      [] role = "int" -> 1
      [] role = "dot" -> 2
      [] role = "frac" -> 3
      [] role = "e" -> 4
      [] role = "sign" -> 5
      [] role = "exp" -> 6

LastPlace == IF parts = <<>> THEN 0 ELSE Place(parts[Len(parts)].role)

\* A piece of a later place, or further digits of the place just typed
TypeFloatPiece ==
    \E c \in FloatPieces :
        /\ \/ Place(c.role) > LastPlace
           \/ Place(c.role) = LastPlace /\ c.role \in DigitRoles
        /\ c.role \in DigitRoles =>
               Cardinality({n \in 1..Len(parts) : parts[n].role \in DigitRoles}) < MaxFloatDigits
        /\ Type(c)

ParseFloat ==
    /\ parts # <<>>
    /\ test_parser("Literal")

NextFloat == TypeFloatPiece \/ ParseFloat

SpecFloat == Init /\ [][NextFloat]_vars

\* decimals = decimal_digit { decimal_digit }
IsDecimals(t) == t # <<>> /\ AllIn(t, DecDigits)

\* exponent = ( "e" | "E" ) [ "+" | "-" ] decimals
IsExponent(t) ==
    /\ Len(t) >= 2
    /\ t[1] \in {"e", "E"}
    /\ IsDecimals(IF t[2] \in {"+", "-"} THEN Tail(Tail(t)) ELSE Tail(t))

\* float_lit = decimals "." [ decimals ] [ exponent ] | decimals exponent |
\*             "." decimals [ exponent ]
IsFloatLit(t) ==
    \E i, j \in 0..Len(t) :
        /\ i <= j
        /\ \/ /\ IsDecimals(SubSeq(t, 1, i))
              /\ i < Len(t) /\ t[i + 1] = "."
              /\ i + 1 <= j
              /\ SubSeq(t, i + 2, j) = <<>> \/ IsDecimals(SubSeq(t, i + 2, j))
              /\ j = Len(t) \/ IsExponent(SubSeq(t, j + 1, Len(t)))
           \/ /\ i = j
              /\ IsDecimals(SubSeq(t, 1, i))
              /\ IsExponent(SubSeq(t, i + 1, Len(t)))
           \/ /\ i = 0
              /\ Len(t) >= 1 /\ t[1] = "."
              /\ IsDecimals(SubSeq(t, 2, j))
              /\ j = Len(t) \/ IsExponent(SubSeq(t, j + 1, Len(t)))

FloatLit(text) == [k |-> "Float", text |-> text]

\* C11 (float before integer): once an input that in full matches the float
\* grammar (decimals . [decimals] [exponent] | decimals exponent |
\* . decimals [exponent]) has been parsed as a Literal, the whole input is
\* consumed and the output is the Float decoded from the whole text: it is
\* no Integer followed by leftover text.
C11_FloatBeforeInteger ==
    (parser = "Literal" /\ IsFloatLit(input)) =>
        /\ Parsed("Literal", FloatLit(input))
        /\ stop = Len(input)

C11_Witness ==
    /\ parser = "Literal"
    /\ input = <<"0", "7", "2", ".", "4", "0">>
    /\ out = Some(FloatLit(input))
    /\ stop = 6

(***************************************************************************)
(* Whitespace around an operator: the operator alone, handed to its own    *)
(* recognizer, and the operator between or before operands, handed to      *)
(* Expression::parser.                                                     *)
(***************************************************************************)
\* The seven spellings of UnaryOperator
UnarySpellings ==
    << [op |-> "Plus", text |-> <<"+">>, word |-> FALSE],
       [op |-> "Minus", text |-> <<"-">>, word |-> FALSE],
       [op |-> "Not", text |-> <<"!">>, word |-> FALSE],
       [op |-> "IsEmpty", text |-> <<"i", "s", " ", "e", "m", "p", "t", "y">>, word |-> TRUE],
       [op |-> "IsNotEmpty",
        text |-> <<"i", "s", " ", "n", "o", "t", " ", "e", "m", "p", "t", "y">>, word |-> TRUE],
       [op |-> "IsDefined",
        text |-> <<"i", "s", " ", "d", "e", "f", "i", "n", "e", "d">>, word |-> TRUE],
       [op |-> "IsNotDefined",
        text |-> <<"i", "s", " ", "n", "o", "t", " ", "d", "e", "f", "i", "n", "e", "d">>,
        word |-> TRUE] >>

PadOperands ==
    {Operand(<<"a">>, IdentifierExpr(<<"a">>)),
     Operand(<<"b">>, IdentifierExpr(<<"b">>)),
     Operand(<<"x">>, IdentifierExpr(<<"x">>)),
     Operand(<<"5">>, IntegerExpr(<<5>>))}

Operators == Typed("operator") \cup Typed("unary")

TypeLeftOperand ==
    /\ parts = <<>>
    /\ \E c \in PadOperands : Type(c)

\* Whitespace before or after the operator, at most MaxPad pieces on a side
TypePadding ==
    /\ IF Operators = {} THEN Cardinality(Typed("pad")) < MaxPad
       ELSE /\ parts[Len(parts)].role # "operand"
            /\ Cardinality({n \in Typed("pad") : \E m \in Operators : m < n}) < MaxPad
    /\ \E c \in Pads : Type(c)

TypeInfix ==
    /\ Operators = {}
    /\ \E n \in 1..Len(Spellings) : Type(Piece("operator", Spellings[n].text, Spellings[n].op))

TypePrefix ==
    /\ Operators = {}
    /\ Typed("operand") = {}
    /\ \E n \in 1..Len(UnarySpellings) :
          Type(Piece("unary", UnarySpellings[n].text, UnarySpellings[n].op))

TypeRightOperand ==
    /\ Operators # {}
    /\ parts[Len(parts)].role # "operand"
    /\ parts[1].role # "pad"
    /\ \E c \in PadOperands : Type(c)

\* The operator alone goes to its recognizer, an operator with operands to
\* the expression parser.
ParsePadded ==
    /\ Operators # {}
    /\ IF Typed("operand") # {} THEN test_parser("Expression")
       ELSE IF Typed("unary") # {} THEN test_parser("UnaryOperator")
       ELSE test_parser("BinaryOperator")

NextPad ==
    \/ TypeLeftOperand
    \/ TypePadding
    \/ TypeInfix
    \/ TypePrefix
    \/ TypeRightOperand
    \/ ParsePadded

SpecPad == Init /\ [][NextPad]_vars

\* The pieces typed, the whitespace left out
RECURSIVE Unpadded(_, _)
Unpadded(ps, n) ==
    IF n = 0 THEN <<>>
    ELSE IF ps[n].role = "pad" THEN Unpadded(ps, n - 1)
    ELSE Append(Unpadded(ps, n - 1), ps[n])

Significant == Unpadded(parts, Len(parts))

\* A word operator is set off from an operand by at least one blank
SetOff(n) ==
    /\ n > 1 => parts[n - 1].role = "pad"
    /\ n < Len(parts) => parts[n + 1].role = "pad"

IsWordOperator(c) ==
    \/ \E n \in 1..Len(Spellings) : Spellings[n].op = c.tag /\ Spellings[n].word
    \/ \E n \in 1..Len(UnarySpellings) : UnarySpellings[n].op = c.tag /\ UnarySpellings[n].word

\* C12 (whitespace tolerance): once whitespace, an operator spelling and
\* whitespace have been handed to the recognizer of that operator (unary
\* or binary), the output is the operator, as for the spelling alone; and
\* once an operator with whitespace between it and its operands has been
\* parsed as an Expression (! x, - 5, a + b, a+b), the output is the
\* UnaryExpr or the BinaryExpr of that operator and those operands.
C12_WhitespaceTolerance ==
    /\ (parser \in {"BinaryOperator", "UnaryOperator"} /\ Len(Significant) = 1) =>
           Parsed(parser, Significant[1].tag)
    /\ (/\ parser = "Expression"
        /\ Len(Significant) = 2
        /\ Significant[1].role = "unary"
        /\ Significant[2].role = "operand"
        /\ IsWordOperator(Significant[1]) => SetOff(1)) =>
           Parsed("Expression", UnaryExprOf(Significant[1].tag, Significant[2].tree))
    /\ (/\ parser = "Expression"
        /\ Len(Significant) = 3
        /\ Significant[1].role = "operand"
        /\ Significant[2].role = "operator"
        /\ Significant[3].role = "operand"
        /\ \A n \in Typed("operator") : IsWordOperator(parts[n]) => SetOff(n)) =>
           Parsed("Expression",
                  BinaryExprOf(Significant[1].tree, Significant[2].tag, Significant[3].tree))

(***************************************************************************)
(* Prefix operators: one or more unary operators, each followed at once or *)
(* after a blank by what it applies to, then an operand expression.        *)
(***************************************************************************)
MaxPrefix == 2

\* Operand expressions and the tree of each
UnaryOperands ==
    {Operand(<<"x">>, IdentifierExpr(<<"x">>)),
     Operand(<<"f", "o", "o", "b", "a", "r">>, IdentifierExpr(<<"f", "o", "o", "b", "a", "r">>)),
     Operand(<<"5">>, IntegerExpr(<<5>>)),
     Operand(<<"t", "r", "u", "e">>, BooleanExpr(TRUE)),
     Operand(<<"f", "(", "x", ")">>, CallOf(IdentifierExpr(<<"f">>), <<IdentifierExpr(<<"x">>)>>)),
     Operand(<<"a", "+", "b">>,
             BinaryExprOf(IdentifierExpr(<<"a">>), "Add", IdentifierExpr(<<"b">>)))}

TypePrefixOperator ==
    /\ Typed("operand") = {}
    /\ Cardinality(Typed("unary")) < MaxPrefix
    /\ \E n \in 1..Len(UnarySpellings) :
          Type(Piece("unary", UnarySpellings[n].text, UnarySpellings[n].op))

TypeBlank ==
    /\ LastRole = "unary"
    /\ Type(Piece("pad", <<" ">>, ""))

TypeUnaryOperand ==
    /\ LastRole \in {"unary", "pad"}
    /\ \E c \in UnaryOperands : Type(c)

ParseUnary ==
    /\ parts # <<>>
    /\ test_parser("Expression")

NextUnary == TypePrefixOperator \/ TypeBlank \/ TypeUnaryOperand \/ ParseUnary

SpecUnary == Init /\ [][NextUnary]_vars

\* The tree of prefix operators applied to an operand: the pieces from n on
RECURSIVE PrefixTree(_, _)
PrefixTree(ps, n) ==
    IF ps[n].role = "operand" THEN ps[n].tree
    ELSE IF ps[n].role = "pad" THEN PrefixTree(ps, n + 1)
    ELSE UnaryExprOf(ps[n].tag, PrefixTree(ps, n + 1))

\* The operator spelling followed by e: a symbol at once, a word after a blank
PrefixForm ==
    /\ LastRole = "operand"
    /\ \A n \in Typed("unary") : IsWordOperator(parts[n]) <=> parts[n + 1].role = "pad"

\* C13 (prefix unary operators): once one of the seven unary operators
\* followed by an operand expression e (!foobar, is empty x,
\* is not defined x) has been parsed as an Expression, the output is
\* UnaryExpr{op, tree of e}, with the operator of the whole spelling typed:
\* is not empty is not is and leftover.
C13_PrefixUnary ==
    (parser = "Expression" /\ PrefixForm) =>
        Parsed("Expression", PrefixTree(parts, 1))

(***************************************************************************)
(* A prefix operator before a chain: u a op b, and the same as the right   *)
(* operand of a binary operator: a * u b op c                              *)
(***************************************************************************)
MaxExtent == 1

\* The binary operators a test writes before the prefix operator: one of
\* each precedence tier
LeadingOperators == {"Multiply", "Add", "Equals", "And", "Or"}

\* The single-character unary operators
PrefixSymbols == {n \in 1..Len(UnarySpellings) : ~UnarySpellings[n].word}

\* The operands of the row of the first operand typed, in the order typed
ExtentOperands ==
    IF Typed("operand") = {} THEN {ChainRows[r][1] : r \in 1..Len(ChainRows)}
    ELSE {ChainRows[r][Cardinality(Typed("operand")) + 1] :
             r \in {q \in 1..Len(ChainRows) :
                       ChainRows[q][1] = parts[CHOOSE n \in Typed("operand") :
                                                   \A m \in Typed("operand") : n <= m]}}

TypeLeading ==
    /\ parts = <<>>
    /\ \E c \in ExtentOperands : Type(c)

TypeLeadingOperator ==
    /\ Len(parts) = 1
    /\ LastRole = "operand"
    /\ \E n \in 1..Len(Spellings) :
          Spellings[n].op \in LeadingOperators /\ Type(Infixed(Spellings[n]))

TypeSymbol ==
    /\ Typed("unary") = {}
    /\ parts = <<>> \/ LastRole = "operator"
    /\ \E n \in PrefixSymbols :
          Type(Piece("unary", UnarySpellings[n].text, UnarySpellings[n].op))

TypeExtentOperand ==
    /\ LastRole = "unary" \/ (LastRole = "operator" /\ Typed("unary") # {})
    /\ \E c \in ExtentOperands : Type(c)

TypeExtentOperator ==
    /\ LastRole = "operand"
    /\ Typed("unary") # {}
    /\ Cardinality({n \in Typed("operator") : \E m \in Typed("unary") : m < n}) < MaxExtent
    /\ \E n \in 1..Len(Spellings) : Type(Infixed(Spellings[n]))

ParseExtent ==
    /\ LastRole = "operand"
    /\ Typed("unary") # {}
    /\ test_parser("Expression")

NextExtent ==
    \/ TypeLeading
    \/ TypeLeadingOperator
    \/ TypeSymbol
    \/ TypeExtentOperand
    \/ TypeExtentOperator
    \/ ParseExtent

SpecExtent == Init /\ [][NextExtent]_vars

\* The tree of a chain of one, two or three operands
ChainTree(ps) ==
    IF Len(ps) = 1 THEN ps[1].tree
    ELSE IF Len(ps) = 3 THEN BinaryExprOf(ps[1].tree, ps[2].tag, ps[3].tree)
    ELSE PrecedenceTree(ps[1].tree, ps[2].tag, ps[3].tree, ps[4].tag, ps[5].tree)

\* The prefix operator at piece u applied to all that follows it
ExtentTree(ps, u) == UnaryExprOf(ps[u].tag, ChainTree(SubSeq(ps, u + 1, Len(ps))))

\* C14 (extent of a unary operand): once u a op b, with u one of + - ! and
\* op any binary operator, has been parsed as an Expression, the output is
\* UnaryExpr{u, BinaryExpr{a, op, b}}: -a+b is Minus(Add(a, b)), !a and b
\* is Not(And(a, b)); and once x op0 u a op b has been parsed, the output
\* is BinaryExpr{x, op0, UnaryExpr{u, BinaryExpr{a, op, b}}}: a*-b+c is
\* Multiply(a, Minus(Add(b, c))).
C14_UnaryOperandExtent ==
    /\ (parser = "Expression" /\ parts[1].role = "unary") =>
           Parsed("Expression", ExtentTree(parts, 1))
    /\ (parser = "Expression" /\ parts[1].role = "operand") =>
           Parsed("Expression",
                  BinaryExprOf(parts[1].tree, parts[2].tag, ExtentTree(parts, 3)))
    /\ (parser = "Expression" /\ input = <<"-", "a", "+", "b">>) =>
           Parsed("Expression",
                  UnaryExprOf("Minus", BinaryExprOf(IdentifierExpr(<<"a">>), "Add",
                                                    IdentifierExpr(<<"b">>))))

C14_Witness ==
    /\ parser = "Expression"
    /\ input = <<"a", "*", "-", "b", "+", "c">>
    /\ out = Some(BinaryExprOf(IdentifierExpr(<<"a">>), "Multiply",
                               UnaryExprOf("Minus",
                                           BinaryExprOf(IdentifierExpr(<<"b">>), "Add",
                                                        IdentifierExpr(<<"c">>)))))

(***************************************************************************)
(* One identifier token, typed as a stem and the characters after it:      *)
(* null, nullable, trueish, undefined_x, falsey, foobar                    *)
(***************************************************************************)
MaxSuffix == 2

KeywordStems ==
    {Piece("stem", <<"t", "r", "u", "e">>, ""), Piece("stem", <<"f", "a", "l", "s", "e">>, ""),
     Piece("stem", <<"n", "u", "l", "l">>, ""),
     Piece("stem", <<"u", "n", "d", "e", "f", "i", "n", "e", "d">>, ""),
     Piece("stem", <<"n", "u", "l">>, ""), Piece("stem", <<"t", "r", "u">>, ""),
     Piece("stem", <<"f", "o", "o", "b", "a", "r">>, ""), Piece("stem", <<"x">>, ""),
     Piece("stem", <<"_">>, "")}

KeywordSuffixes ==
    {Piece("suffix", <<"a", "b", "l", "e">>, ""), Piece("suffix", <<"i", "s", "h">>, ""),
     Piece("suffix", <<"_", "x">>, ""), Piece("suffix", <<"y">>, ""),
     Piece("suffix", <<"l">>, ""), Piece("suffix", <<"e">>, ""),
     Piece("suffix", <<"1">>, "")}

TypeStem ==
    /\ parts = <<>>
    /\ \E c \in KeywordStems : Type(c)

TypeSuffix ==
    /\ parts # <<>>
    /\ Len(parts) <= MaxSuffix
    /\ \E c \in KeywordSuffixes : Type(c)

ParseToken ==
    /\ parts # <<>>
    /\ test_parser("Expression")

NextKeyword ==
    \/ TypeStem
    \/ TypeSuffix
    \/ ParseToken

SpecKeyword == Init /\ [][NextKeyword]_vars

\* letter or underscore followed by letters, digits, underscores
IsIdentifierToken(s) ==
    /\ s # <<>>
    /\ s[1] \in Letters \cup {"_"}
    /\ \A n \in 2..Len(s) : s[n] \in Letters \cup DecDigits \cup {"_"}

\* The four keywords and the Literal variant of each
KeywordLiterals ==
    {<<<<"t", "r", "u", "e">>, [k |-> "Boolean", v |-> TRUE]>>,
     <<<<"f", "a", "l", "s", "e">>, [k |-> "Boolean", v |-> FALSE]>>,
     <<<<"n", "u", "l", "l">>, [k |-> "Null"]>>,
     <<<<"u", "n", "d", "e", "f", "i", "n", "e", "d">>, [k |-> "Undefined"]>>}

IsKeyword(s) == \E w \in KeywordLiterals : w[1] = s

\* C15 (keyword versus identifier): once an input that is in full one
\* identifier token has been parsed as an Expression, the output is the
\* Literal variant of the keyword if the input is exactly true, false,
\* null or undefined, and otherwise Expression::Identifier holding the
\* whole input, also when the input begins with a keyword (nullable,
\* trueish, undefined_x, falsey).
C15_KeywordVersusIdentifier ==
    (parser = "Expression" /\ IsIdentifierToken(input)) =>
        /\ \A w \in KeywordLiterals :
              input = w[1] => Parsed("Expression", [k |-> "Literal", lit |-> w[2]])
        /\ ~IsKeyword(input) => Parsed("Expression", IdentifierExpr(input))

====
